---------------------------- MODULE Spec2Model ----------------------------
(* ETF holdings processor (ETF_Pulls/process_holdings.py): the option-ticker   *)
(* decoder parse_option_ticker, the classifier classify_holding and the        *)
(* pipeline process_etf_data that applies them to a downloaded holdings table. *)
(*                                                                             *)
(* A Python str is a sequence of one-character strings. A float that holds a   *)
(* strike is carried as the decimal numeral of the exact quotient, with three   *)
(* fractional digits ("195.000"); the rounding of the quotient to a double is  *)
(* not represented.                                                            *)
EXTENDS Integers, Sequences, FiniteSets, TLC

VARIABLES pc, csv, df, files, status, args, result

vars == <<pc, csv, df, files, status, args, result>>

pipelineVars == <<pc, csv, df, files, status>>

callVars == <<args, result>>

-----------------------------------------------------------------------------
(* Values *)

\* Python None, and pandas' missing value after a column of None is built.
None == "None"

Digit == {"0", "1", "2", "3", "4", "5", "6", "7", "8", "9"}

DigitValue(c) ==
    CASE c = "0" -> 0 [] c = "1" -> 1 [] c = "2" -> 2 [] c = "3" -> 3
      [] c = "4" -> 4 [] c = "5" -> 5 [] c = "6" -> 6 [] c = "7" -> 7
      [] c = "8" -> 8 [] c = "9" -> 9

\* The least element of a non-empty set of integers.
MinOf(S) == CHOOSE x \in S : \A y \in S : x <= y

-----------------------------------------------------------------------------
(* re.search(r'(\d{6})([CP])(\d+)', str(ticker)) *)

\* (\d{6})([CP])(\d*): the strike digits made optional.
MatchAt_strike_optional(s, i) ==
    /\ i >= 1
    /\ i + 6 <= Len(s)
    /\ \A k \in 0..5 : s[i + k] \in Digit
    /\ s[i + 6] \in {"C", "P"}

\* The pattern matches with its first character at position i: six digits,
\* one of C and P, and at least one digit.
MatchAt(s, i) ==
    /\ i >= 1
    /\ i + 7 <= Len(s)
    /\ \A k \in 0..5 : s[i + k] \in Digit
    /\ s[i + 6] \in {"C", "P"}
    /\ s[i + 7] \in Digit

\* The last position of the greedy \d+ that starts at position j.
DigitRunEnd(s, j) ==
    LET stops == {k \in j..Len(s) : s[k] \notin Digit}
    IN  IF stops = {} THEN Len(s) ELSE MinOf(stops) - 1

\* re.search scans left to right and returns the first position that matches;
\* None when no position does. The groups are the matched pieces.
re_search(s) ==
    LET starts == {i \in 1..(Len(s) - 7) : MatchAt(s, i)}
    IN  IF starts = {}
        THEN [found |-> FALSE]
        ELSE LET i == MinOf(starts)
             IN  [found  |-> TRUE,
                  start  |-> i,
                  group1 |-> SubSeq(s, i, i + 5),
                  group2 |-> s[i + 6],
                  group3 |-> SubSeq(s, i + 7, DigitRunEnd(s, i + 7))]

-----------------------------------------------------------------------------
(* datetime.strptime(yy_mm_dd, '%y%m%d') and strftime('%Y-%m-%d') *)

TwoDigits(s, k) == 10 * DigitValue(s[k]) + DigitValue(s[k + 1])

\* %y: the two-digit year is placed by the POSIX pivot, 00..68 in the 2000s
\* and 69..99 in the 1900s.
Century(yy) == IF yy <= 68 THEN 2000 + yy ELSE 1900 + yy

IsLeap(year) == year % 4 = 0 /\ (year % 100 # 0 \/ year % 400 = 0)

DaysInMonth(year, month) ==
    IF month = 2 THEN (IF IsLeap(year) THEN 29 ELSE 28)
    ELSE IF month \in {4, 6, 9, 11} THEN 30 ELSE 31

\* Six digits leave no room for the one-digit forms of %m and %d: a match that
\* takes fewer than six characters ends in "unconverted data remains". The
\* result is a date, or a ValueError.
strptime(d6) ==
    LET year  == Century(TwoDigits(d6, 1))
        month == TwoDigits(d6, 3)
        day   == TwoDigits(d6, 5)
    IN  IF month \in 1..12 /\ day >= 1 /\ day <= DaysInMonth(year, month)
        THEN [ok |-> TRUE, year |-> year, month |-> month, day |-> day]
        ELSE [ok |-> FALSE, exc |-> "ValueError"]

Pad2(n) == IF n < 10 THEN "0" \o ToString(n) ELSE ToString(n)

strftime(d) == ToString(d.year) \o "-" \o Pad2(d.month) \o "-" \o Pad2(d.day)

-----------------------------------------------------------------------------
(* int(strike_raw) / 1000.0 *)

\* sys.int_info.default_max_str_digits: int() of a longer digit string is a
\* ValueError. Leading zeros count.
IntMaxStrDigits == 4300

\* 2^1024 - 2^970, the least integer whose conversion to a double overflows.
FloatOverflowAt ==
    << "1", "7", "9", "7", "6", "9", "3", "1", "3", "4", "8", "6", "2", "3", "1", "5", "8", "0", "7", "9", "3", "7", "2", "8", "9",
       "7", "1", "4", "0", "5", "3", "0", "3", "4", "1", "5", "0", "7", "9", "9", "3", "4", "1", "3", "2", "7", "1", "0", "0", "3",
       "7", "8", "2", "6", "9", "3", "6", "1", "7", "3", "7", "7", "8", "9", "8", "0", "4", "4", "4", "9", "6", "8", "2", "9", "2",
       "7", "6", "4", "7", "5", "0", "9", "4", "6", "6", "4", "9", "0", "1", "7", "9", "7", "7", "5", "8", "7", "2", "0", "7", "0",
       "9", "6", "3", "3", "0", "2", "8", "6", "4", "1", "6", "6", "9", "2", "8", "8", "7", "9", "1", "0", "9", "4", "6", "5", "5",
       "5", "5", "4", "7", "8", "5", "1", "9", "4", "0", "4", "0", "2", "6", "3", "0", "6", "5", "7", "4", "8", "8", "6", "7", "1",
       "5", "0", "5", "8", "2", "0", "6", "8", "1", "9", "0", "8", "9", "0", "2", "0", "0", "0", "7", "0", "8", "3", "8", "3", "6",
       "7", "6", "2", "7", "3", "8", "5", "4", "8", "4", "5", "8", "1", "7", "7", "1", "1", "5", "3", "1", "7", "6", "4", "4", "7",
       "5", "7", "3", "0", "2", "7", "0", "0", "6", "9", "8", "5", "5", "5", "7", "1", "3", "6", "6", "9", "5", "9", "6", "2", "2",
       "8", "4", "2", "9", "1", "4", "8", "1", "9", "8", "6", "0", "8", "3", "4", "9", "3", "6", "4", "7", "5", "2", "9", "2", "7",
       "1", "9", "0", "7", "4", "1", "6", "8", "4", "4", "4", "3", "6", "5", "5", "1", "0", "7", "0", "4", "3", "4", "2", "7", "1",
       "1", "5", "5", "9", "6", "9", "9", "5", "0", "8", "0", "9", "3", "0", "4", "2", "8", "8", "0", "1", "7", "7", "9", "0", "4",
       "1", "7", "4", "4", "9", "7", "7", "9", "2" >>

\* int() drops the leading zeros: the digits of the value, <<>> for zero.
IntDigits(run) ==
    IF \A k \in 1..Len(run) : run[k] = "0"
    THEN <<>>
    ELSE LET first == CHOOSE k \in 1..Len(run) :
                          run[k] # "0" /\ \A j \in 1..(k - 1) : run[j] = "0"
         IN  SubSeq(run, first, Len(run))

\* a < b for two digit sequences without leading zeros.
DigitsLess(a, b) ==
    \/ Len(a) < Len(b)
    \/ /\ Len(a) = Len(b)
       /\ \E k \in 1..Len(a) :
              /\ DigitValue(a[k]) < DigitValue(b[k])
              /\ \A j \in 1..(k - 1) : a[j] = b[j]

\* The characters of s as one string.
RECURSIVE Join(_)
Join(s) ==
    IF s = <<>> THEN ""
    ELSE IF Len(s) = 1 THEN s[1]
    ELSE LET h == Len(s) \div 2
         IN  Join(SubSeq(s, 1, h)) \o Join(SubSeq(s, h + 1, Len(s)))

\* The quotient by 1000.0 of the integer with digits d, as a decimal numeral.
TrueDiv1000(d) ==
    LET padded == IF Len(d) >= 3 THEN d
                  ELSE [k \in 1..3 |-> IF k <= 3 - Len(d) THEN "0"
                                       ELSE d[k - (3 - Len(d))]]
        n == Len(padded)
    IN  (IF n > 3 THEN Join(SubSeq(padded, 1, n - 3)) ELSE "0")
            \o "." \o Join(SubSeq(padded, n - 2, n))

\* The strike, "ValueError" (int() refuses the string) or "OverflowError"
\* (the integer does not fit a double).
StrikeOf(strike_raw) ==
    IF Len(strike_raw) > IntMaxStrDigits THEN "ValueError"
    ELSE LET d == IntDigits(strike_raw)
         IN  IF ~DigitsLess(d, FloatOverflowAt) THEN "OverflowError"
             ELSE TrueDiv1000(d)

-----------------------------------------------------------------------------
(* parse_option_ticker *)

Return(v) == [kind |-> "return", value |-> v, exc |-> None]

Raise(e) == [kind |-> "raise", value |-> <<>>, exc |-> e]

\* try: strptime, strftime / except ValueError: None
ExpirationOf(yy_mm_dd) ==
    LET date_obj == strptime(yy_mm_dd)
    IN  IF date_obj.ok THEN strftime(date_obj) ELSE None

\* A date that does not parse rejects the whole match.
parse_option_ticker_rejects_bad_date(ticker) ==
    LET match == re_search(ticker)
    IN  IF match.found /\ ExpirationOf(match.group1) # None
        THEN LET strike == StrikeOf(match.group3)
             IN  IF strike = "OverflowError" THEN Raise("OverflowError")
                 ELSE Return(<<ExpirationOf(match.group1), match.group2,
                               IF strike = "ValueError" THEN None ELSE strike>>)
        ELSE Return(<<None, None, None>>)

parse_option_ticker(ticker) ==
    LET match == re_search(ticker)
    IN  IF match.found
        THEN LET expiration_date == ExpirationOf(match.group1)
                 option_type     == match.group2
                 strike          == StrikeOf(match.group3)
             IN  IF strike = "OverflowError" THEN Raise("OverflowError")
                 ELSE Return(<<expiration_date, option_type,
                               IF strike = "ValueError" THEN None ELSE strike>>)
        ELSE Return(<<None, None, None>>)

-----------------------------------------------------------------------------
(* classify_holding *)

\* quantity <= 0 taken for the short side.
classify_holding_zero_short(row) ==
    LET quantity    == row["Quantity"]
        option_type == row["Put/Call"]
        short       == option_type # None /\ quantity <= 0
    IN  IF short /\ option_type = "C" THEN "CC"
        ELSE IF short /\ option_type = "P" THEN "CSP"
        ELSE IF option_type = None THEN "Stock"
        ELSE "Long " \o option_type

classify_holding(row) ==
    LET quantity    == row["Quantity"]
        option_type == row["Put/Call"]
        short       == option_type # None /\ quantity < 0
    IN  IF short /\ option_type = "C" THEN "CC"
        ELSE IF short /\ option_type = "P" THEN "CSP"
        ELSE IF option_type = None THEN "Stock"
        ELSE "Long " \o option_type

-----------------------------------------------------------------------------
(* Inputs of the unit calls *)

\* The number of pieces a free-form ticker is put together from.
MaxPieces == 5

\* The largest absolute quantity of a classified row.
MaxQuantity == 20

Repeat(c, n) == [k \in 1..n |-> c]

YearDigits == {<<"0", "0">>, <<"2", "4">>, <<"2", "5">>, <<"6", "8">>,
               <<"6", "9">>, <<"9", "9">>}

MonthDigits == {<<"0", "0">>, <<"0", "1">>, <<"0", "2">>, <<"0", "4">>,
                <<"1", "2">>, <<"1", "3">>}

DayDigits == {<<"0", "0">>, <<"0", "1">>, <<"2", "8">>, <<"2", "9">>,
              <<"3", "0">>, <<"3", "1">>, <<"3", "2">>}

DateBlocks == {y \o m \o d : y \in YearDigits, m \in MonthDigits, d \in DayDigits}

Roots == {<<>>, <<"X">>, <<"5">>}

ShortStrikes == {<<"5">>, <<"1", "0", "0", "1">>,
                 <<"0", "0", "1", "9", "5", "0", "0", "0">>,
                 <<"0", "0", "0", "0", "0", "5", "0", "0">>,
                 <<"0", "0", "0", "1", "0", "0", "0", "0">>}

\* Digit runs on either side of the two limits of int(...) / 1000.0.
LongStrikes ==
    LET n == Len(FloatOverflowAt)
    IN  {FloatOverflowAt,
         [FloatOverflowAt EXCEPT ![n] = "1"],
         Repeat("9", n),
         <<"1">> \o Repeat("0", n - 1),
         <<"1">> \o Repeat("0", n),
         Repeat("0", IntMaxStrDigits),
         Repeat("0", IntMaxStrDigits + 1),
         Repeat("9", IntMaxStrDigits + 1)}

\* [ROOT][YYMMDD][C/P][STRIKE_PRICE]
ShapedTickers ==
    {r \o d \o <<t>> \o k :
        r \in Roots, d \in DateBlocks, t \in {"C", "P"}, k \in ShortStrikes}

LongTickers ==
    {<<"X">> \o d \o <<t>> \o k \o e :
        d \in {<<"2", "5", "1", "2", "1", "9">>, <<"9", "9", "9", "9", "9", "9">>},
        t \in {"C", "P"}, k \in LongStrikes, e \in {<<>>, <<"P", "1">>}}

DocumentedTickers ==
    {<<"B", "W", "X", "T", "2", "5", "1", "2", "1", "9", "C",
       "0", "0", "1", "9", "5", "0", "0", "0">>,
     <<"A", "A", "P", "L", " ", "2", "4", "0", "6", "2", "1", " ", "P", " ",
       "0", "0", "1", "5", "0", "0", "0", "0">>,
     <<"A", "A", "P", "L", "2", "4", "0", "6", "2", "1", "P",
       "0", "0", "1", "5", "0", "0", "0", "0">>,
     <<"X", "Y", "Z", "9", "9", "9", "9", "9", "9", "C",
       "0", "0", "0", "1", "0", "0", "0", "0">>,
     <<"A", "A", "P", "L">>}

FreePieces == {<<"X">>, <<" ">>, <<"C">>, <<"P">>, <<"5">>,
               <<"2", "5", "1", "2", "1", "9">>,
               <<"9", "9", "9", "9", "9", "9">>}

\* Every concatenation of at most n free pieces.
RECURSIVE Concats(_)
Concats(n) ==
    IF n = 0 THEN {<<>>}
    ELSE LET shorter == Concats(n - 1)
         IN  shorter \cup {s \o p : s \in shorter, p \in FreePieces}

TickerInputs ==
    ShapedTickers \cup LongTickers \cup DocumentedTickers \cup Concats(MaxPieces)

Quantities == (0 - MaxQuantity)..MaxQuantity

OptionTypes == {"C", "P", None}

-----------------------------------------------------------------------------
(* Unit calls: one function applied to one argument *)

Pending == [kind |-> "pending", value |-> <<>>, exc |-> None]

Idle ==
    /\ pc = "idle"
    /\ csv = [columns |-> <<>>, rows |-> <<>>]
    /\ df = [columns |-> <<>>, rows |-> <<>>]
    /\ files = <<>>
    /\ status = None

InitParse ==
    /\ Idle
    /\ args \in [fn : {"parse_option_ticker"}, ticker : TickerInputs]
    /\ result = Pending

CallParse ==
    /\ args.fn = "parse_option_ticker"
    /\ result = Pending
    /\ result' = parse_option_ticker(args.ticker)
    /\ UNCHANGED <<pipelineVars, args>>

NextParse == CallParse

SpecParse == InitParse /\ [][NextParse]_vars

InitClassify ==
    /\ Idle
    /\ args \in [fn : {"classify_holding"},
                 row : {("Quantity" :> q) @@ ("Put/Call" :> t) :
                            q \in Quantities, t \in OptionTypes}]
    /\ result = Pending

CallClassify ==
    /\ args.fn = "classify_holding"
    /\ result = Pending
    /\ result' = Return(classify_holding(args.row))
    /\ UNCHANGED <<pipelineVars, args>>

NextClassify == CallClassify

SpecClassify == InitClassify /\ [][NextClassify]_vars

-----------------------------------------------------------------------------
(* process_etf_data: configuration and inputs *)

ETF_TICKER == "KYLD"

OUTPUT_FILENAME == "enriched_" \o ETF_TICKER \o ".csv"

\* f"{today}_{ETF_TICKER}_{ARCHIVE_FILENAME_BASE}", with the day left symbolic.
dated_filename == "<today>_" \o ETF_TICKER \o "_holdings.csv"

\* The number of data lines of the downloaded file.
MaxRows == 2

RequiredColumns == <<"Ticker", "Quantity", "Description">>

Range(f) == {f[k] : k \in DOMAIN f}

\* A Quantity cell as read_csv finds it: a number, or text that is no number
\* (an empty cell included).
Cell(n) == [numeric |-> TRUE, value |-> n]

NotANumber == [numeric |-> FALSE, value |-> 0]

QuantityCells == {Cell(0 - 5), Cell(2), NotANumber}

OverflowTicker == <<"X", "2", "5", "1", "2", "1", "9", "C">> \o Repeat("9", Len(FloatOverflowAt))

FileTickers ==
    {<<"A", "A", "P", "L">>,
     <<"B", "W", "X", "T", "2", "5", "1", "2", "1", "9", "C",
       "0", "0", "1", "9", "5", "0", "0", "0">>,
     <<"A", "A", "P", "L", " ", "2", "4", "0", "6", "2", "1", " ", "P", " ",
       "0", "0", "1", "5", "0", "0", "0", "0">>,
     <<"X", "Y", "Z", "9", "9", "9", "9", "9", "9", "C",
       "0", "0", "0", "1", "0", "0", "0", "0">>,
     OverflowTicker}

FileDescriptions == {<<"A", "p", "p", "l", "e", " ", "I", "n", "c">>, <<"N", "e", "t", " ", "C", "a", "s", "h">>}

\* The files the download can deliver: a header with any of the required
\* columns, and up to MaxRows lines. A column the header lacks has no cells;
\* Line is the position of the line in the file, carried like any other column.
LinesOver(cols) ==
    [Ticker      : IF "Ticker" \in cols THEN FileTickers ELSE {<<>>},
     Quantity    : IF "Quantity" \in cols THEN QuantityCells ELSE {NotANumber},
     Description : IF "Description" \in cols THEN FileDescriptions ELSE {<<>>}]

Numbered(lines) ==
    [k \in 1..Len(lines) |->
        ("Line" :> k) @@ ("Ticker" :> lines[k].Ticker)
            @@ ("Quantity" :> lines[k].Quantity)
            @@ ("Description" :> lines[k].Description)]

FilesOver(cols) ==
    {[columns |-> SelectSeq(<<"Line">> \o RequiredColumns,
                            LAMBDA c : c = "Line" \/ c \in cols),
      rows    |-> Numbered(lines)] :
        lines \in UNION {[1..n -> LinesOver(cols)] : n \in 0..MaxRows}}

CsvFiles == UNION {FilesOver(cols) : cols \in SUBSET Range(RequiredColumns)}

-----------------------------------------------------------------------------
(* process_etf_data: the pandas steps *)

\* fillna(-1): a missing quantity made negative.
to_numeric_fillna_minus1(cell) == IF cell.numeric THEN cell.value ELSE 0 - 1

\* pd.to_numeric(errors='coerce').fillna(0)
to_numeric_fillna0(cell) == IF cell.numeric THEN cell.value ELSE 0

\* str.replace(' ', '', 1): only the first space removed.
str_replace_first_space(s) ==
    IF \A k \in 1..Len(s) : s[k] # " " THEN s
    ELSE LET first == CHOOSE k \in 1..Len(s) :
                          s[k] = " " /\ \A j \in 1..(k - 1) : s[j] # " "
         IN  SubSeq(s, 1, first - 1) \o SubSeq(s, first + 1, Len(s))

\* str.replace(' ', ''): every space removed.
str_replace_spaces(s) == SelectSeq(s, LAMBDA c : c # " ")

LowerCase == <<"a", "b", "c", "d", "e", "f", "g", "h", "i", "j", "k", "l", "m", "n", "o", "p", "q", "r", "s", "t", "u", "v", "w", "x", "y", "z">>

UpperCase == <<"A", "B", "C", "D", "E", "F", "G", "H", "I", "J", "K", "L", "M", "N", "O", "P", "Q", "R", "S", "T", "U", "V", "W", "X", "Y", "Z">>

\* str.upper() of one character.
Upper(c) ==
    IF \E k \in 1..Len(LowerCase) : LowerCase[k] = c
    THEN UpperCase[CHOOSE k \in 1..Len(LowerCase) : LowerCase[k] = c]
    ELSE c

cash_keywords ==
    {<<"T", "R", "E", "A", "S", "U", "R", "Y">>,
     <<"C", "A", "S", "H">>,
     <<"S", "W", "A", "P">>,
     <<"R", "E", "P", "U", "R", "C", "H", "A", "S", "E">>,
     <<"R", "E", "C", "E", "I", "V", "A", "B", "L", "E">>,
     <<"D", "E", "P", "O", "S", "I", "T">>,
     <<"F", "U", "T", "U", "R", "E", "S">>,
     <<"C", "O", "N", "T", "R", "A", "C", "T">>,
     <<"M", "M", "K", "T">>}

\* str.contains('|'.join(cash_keywords)): some keyword occurs in s.
Contains(s, words) ==
    \E w \in words : \E i \in 1..(Len(s) - Len(w) + 1) :
        SubSeq(s, i, i + Len(w) - 1) = w

\* mask = ~Description.str.upper().str.contains(...)
mask(row) ==
    ~Contains([k \in 1..Len(row["Description"]) |-> Upper(row["Description"][k])],
              cash_keywords)

\* The outcome of df['Ticker'].apply(parse_option_ticker): the list of the
\* returned tuples, or the first exception raised.
Apply(rows) ==
    LET outcomes == [k \in 1..Len(rows) |-> parse_option_ticker(rows[k]["Ticker"])]
    IN  IF \E k \in 1..Len(rows) : outcomes[k].kind = "raise"
        THEN Raise(outcomes[CHOOSE k \in 1..Len(rows) :
                                /\ outcomes[k].kind = "raise"
                                /\ \A j \in 1..(k - 1) : outcomes[j].kind # "raise"].exc)
        ELSE Return([k \in 1..Len(rows) |-> outcomes[k].value])

\* df[['Expiration', 'Put/Call', 'Strike']] = DataFrame(parsed.tolist()):
\* the k-th tuple lands in the k-th row.
WithParsed(row, tuple) ==
    ("Expiration" :> tuple[1]) @@ ("Put/Call" :> tuple[2])
        @@ ("Strike" :> tuple[3]) @@ row

\* df['Classification'] = df.apply(classify_holding, axis=1)
WithClassification(row) == ("Classification" :> classify_holding(row)) @@ row

target_start_cols ==
    <<"ETF", "Ticker", "Put/Call", "Strike", "Expiration", "Classification">>

\* target_start_cols that exist, then the other columns in their order.
final_cols(columns) ==
    SelectSeq(target_start_cols, LAMBDA c : c \in Range(columns))
        \o SelectSeq(columns, LAMBDA c : c \notin Range(target_start_cols))

-----------------------------------------------------------------------------
(* process_etf_data: the run *)

Init ==
    /\ pc = "start"
    /\ csv \in CsvFiles
    /\ df = [columns |-> <<>>, rows |-> <<>>]
    /\ files = <<>>
    /\ status = None
    /\ args = [fn |-> "process_etf_data"]
    /\ result = Pending

\* sys.exit(1), from the column check or from an except clause.
Exit1 ==
    /\ pc' = "exit"
    /\ status' = 1

\* requests.get, raise_for_status, decode: the download arrives, or a
\* RequestException ends the run.
Download ==
    /\ pc = "start"
    /\ \/ /\ pc' = "downloaded"
          /\ UNCHANGED status
       \/ Exit1
    /\ UNCHANGED <<csv, df, files, callVars>>

\* 1. Save the dated archive copy; an OSError of open reaches
\* `except Exception`.
Archive ==
    /\ pc = "downloaded"
    /\ \/ /\ files' = (dated_filename :> csv) @@ files
          /\ pc' = "archived"
          /\ UNCHANGED status
       \/ /\ Exit1
          /\ UNCHANGED files
    /\ UNCHANGED <<csv, df, callVars>>

\* The column check prints its error and goes on.
LoadAndValidate_no_exit ==
    /\ pc = "archived"
    /\ df' = [columns |-> csv.columns,
              rows    |-> [k \in 1..Len(csv.rows) |->
                              [csv.rows[k] EXCEPT !["Quantity"] =
                                  to_numeric_fillna0(@)]]]
    /\ pc' = "validated"
    /\ UNCHANGED <<csv, files, status, callVars>>

\* 2. read_csv, the check of the three columns, Quantity made numeric.
LoadAndValidate ==
    /\ pc = "archived"
    /\ IF \E c \in Range(RequiredColumns) : c \notin Range(csv.columns)
       THEN /\ Exit1
            /\ UNCHANGED df
       ELSE /\ df' = [columns |-> csv.columns,
                      rows    |-> [k \in 1..Len(csv.rows) |->
                                      [csv.rows[k] EXCEPT !["Quantity"] =
                                          to_numeric_fillna0(@)]]]
            /\ pc' = "validated"
            /\ UNCHANGED status
    /\ UNCHANGED <<csv, files, callVars>>

\* 3. Clean Ticker: remove all spaces.
CleanTicker ==
    /\ pc = "validated"
    /\ df' = [df EXCEPT !.rows = [k \in 1..Len(df.rows) |->
                 [df.rows[k] EXCEPT !["Ticker"] = str_replace_spaces(@)]]]
    /\ pc' = "cleaned"
    /\ UNCHANGED <<csv, files, status, callVars>>

\* 4. Filter out the cash lines; reset_index keeps the order.
FilterRows ==
    /\ pc = "cleaned"
    /\ df' = [df EXCEPT !.rows = SelectSeq(df.rows, mask)]
    /\ pc' = "filtered"
    /\ UNCHANGED <<csv, files, status, callVars>>

\* 5. Parse every Ticker and expand the tuples into three columns. An
\* exception of parse_option_ticker, and the ValueError of assigning a frame
\* without columns (no row left) to three columns, reach `except Exception`.
ParseTickers ==
    /\ pc = "filtered"
    /\ LET parsed_results == Apply(df.rows)
       IN  IF parsed_results.kind = "raise" \/ df.rows = <<>>
           THEN /\ Exit1
                /\ UNCHANGED df
           ELSE /\ df' = [columns |-> df.columns \o <<"Expiration", "Put/Call", "Strike">>,
                          rows    |-> [k \in 1..Len(df.rows) |->
                                          WithParsed(df.rows[k], parsed_results.value[k])]]
                /\ pc' = "parsed"
                /\ UNCHANGED status
    /\ UNCHANGED <<csv, files, callVars>>

\* Every row labelled from the first row's fields.
ClassifyRows_from_first_row ==
    /\ pc = "parsed"
    /\ df' = [columns |-> df.columns \o <<"Classification">>,
              rows    |-> [k \in 1..Len(df.rows) |->
                              ("Classification" :> classify_holding(df.rows[1]))
                                  @@ df.rows[k]]]
    /\ pc' = "classified"
    /\ UNCHANGED <<csv, files, status, callVars>>

\* 6. Classify every row.
ClassifyRows ==
    /\ pc = "parsed"
    /\ df' = [columns |-> df.columns \o <<"Classification">>,
              rows    |-> [k \in 1..Len(df.rows) |-> WithClassification(df.rows[k])]]
    /\ pc' = "classified"
    /\ UNCHANGED <<csv, files, status, callVars>>

\* 7, 8 and the save: the ETF column, the column order, to_csv; the run ends.
\* An OSError of to_csv reaches `except Exception`.
Save ==
    /\ pc = "classified"
    /\ LET final == [columns |-> final_cols(df.columns \o <<"ETF">>),
                     rows    |-> [k \in 1..Len(df.rows) |->
                                     ("ETF" :> ETF_TICKER) @@ df.rows[k]]]
       IN  /\ df' = final
           /\ \/ /\ files' = (OUTPUT_FILENAME :> final) @@ files
                 /\ pc' = "exit"
                 /\ status' = 0
              \/ /\ Exit1
                 /\ UNCHANGED files
    /\ UNCHANGED <<csv, callVars>>

Next ==
    \/ Download
    \/ Archive
    \/ LoadAndValidate
    \/ CleanTicker
    \/ FilterRows
    \/ ParseTickers
    \/ ClassifyRows
    \/ Save

Spec == Init /\ [][Next]_vars

-----------------------------------------------------------------------------
(* Properties of classify_holding (SpecClassify) *)

Called == result.kind # "pending"

Returned == result.kind = "return"

\* C1: classify_holding returns, for every quantity and every option type in
\* {C, P, absent}, the label of the three-case rule: a present type with a
\* negative quantity gives CC / CSP, an absent type gives Stock whatever the
\* quantity, a present type with a quantity >= 0 (zero included) gives
\* Long C / Long P; a negative quantity on an option is never Long or Stock.
C1_ThreeCaseRule ==
    Called =>
        LET q == args.row["Quantity"]
            t == args.row["Put/Call"]
        IN  /\ Returned
            /\ (t = "C" /\ q < 0) => result.value = "CC"
            /\ (t = "P" /\ q < 0) => result.value = "CSP"
            /\ t = None => result.value = "Stock"
            /\ (t = "C" /\ q >= 0) => result.value = "Long C"
            /\ (t = "P" /\ q >= 0) => result.value = "Long P"
            /\ (t # None /\ q < 0) =>
                   result.value \notin {"Long C", "Long P", "Stock"}

\* The documented zero case: (quantity 0, P) has been classified Long P.
C1_Witness ==
    /\ Returned
    /\ args.row["Quantity"] = 0
    /\ args.row["Put/Call"] = "P"
    /\ result.value = "Long P"

-----------------------------------------------------------------------------
(* Properties of parse_option_ticker (SpecParse) *)

AllAbsent == <<None, None, None>>

\* Some contiguous substring of s is six digits, C or P, one or more digits.
HasOptionCode(s) ==
    \E i \in 1..(Len(s) - 7) :
        \A k \in i..(i + 7) : IF k = i + 6 THEN s[k] \in {"C", "P"}
                              ELSE s[k] \in Digit

\* s with every space left out.
RECURSIVE WithoutSpaces(_)
WithoutSpaces(s) ==
    IF Len(s) = 0 THEN <<>>
    ELSE IF Len(s) = 1 THEN (IF s[1] = " " THEN <<>> ELSE s)
    ELSE LET h == Len(s) \div 2
         IN  WithoutSpaces(SubSeq(s, 1, h)) \o WithoutSpaces(SubSeq(s, h + 1, Len(s)))

\* C2: for every ticker without a substring of the shape six digits, C or P,
\* one or more digits, parse_option_ticker returns (None, None, None) and
\* does not raise.
C2_NoCodeAllAbsent ==
    (Called /\ ~HasOptionCode(args.ticker)) =>
        (Returned /\ result.value = AllAbsent)

\* A ticker with digits and a C/P letter, but not in the shape, was decoded.
C2_Witness ==
    /\ Returned
    /\ ~HasOptionCode(args.ticker)
    /\ \E k \in 1..Len(args.ticker) : args.ticker[k] \in Digit
    /\ \E k \in 1..Len(args.ticker) : args.ticker[k] \in {"C", "P"}
    /\ result.value = AllAbsent

\* The six digits d6, read as YYMMDD in the 2000s, are a calendar date.
ValidIn2000s(d6) ==
    /\ TwoDigits(d6, 3) \in 1..12
    /\ TwoDigits(d6, 5) >= 1
    /\ TwoDigits(d6, 5) <= DaysInMonth(2000 + TwoDigits(d6, 1), TwoDigits(d6, 3))

\* C3: whenever the pattern matches and the six digits are a valid date, the
\* expiration returned is 20YY-MM-DD, for every YY from 00 to 99.
C3_AlwaysCentury2000 ==
    LET match == re_search(args.ticker)
    IN  (Returned /\ match.found /\ ValidIn2000s(match.group1)) =>
            result.value[1] =
                Join(<<"2", "0", match.group1[1], match.group1[2], "-",
                       match.group1[3], match.group1[4], "-",
                       match.group1[5], match.group1[6]>>)

\* C5: when the pattern matches and the six digits are no calendar date, the
\* result returned has the date absent and still carries the captured letter
\* and the strike price; it is never the all-absent result.
C5_BadDateKeepsTypeAndStrike ==
    LET match == re_search(args.ticker)
    IN  (Called /\ match.found /\ ~ValidIn2000s(match.group1)) =>
            /\ Returned
            /\ result.value[1] = None
            /\ result.value[2] = match.group2
            /\ result.value[3] = TrueDiv1000(IntDigits(match.group3))
            /\ result.value # AllAbsent

\* C6 as stated: every result returned has all three fields present or all
\* three absent.
C6_AllOrNothing ==
    Returned =>
        \/ result.value = AllAbsent
        \/ \A k \in 1..3 : result.value[k] # None

\* C6 as amended: a returned result is all-absent exactly when the ticker
\* holds no option code, and otherwise carries the option type; expiration
\* and strike are never present without the option type.
C6_TypeLeadsTheResult ==
    Returned =>
        /\ result.value[2] = None <=> ~HasOptionCode(args.ticker)
        /\ result.value[2] = None => result.value = AllAbsent
        /\ result.value[2] \in {"C", "P", None}

\* A partial result: the date absent beside a present type and strike.
C6_Witness ==
    /\ Returned
    /\ result.value[1] = None
    /\ result.value[2] = "C"
    /\ result.value[3] = "10.000"

\* C7: for every input parse_option_ticker returns a 3-tuple and never
\* raises: every failure of the date or of the strike sub-parse, for a digit
\* run of any length, is an absent field.
C7_NeverRaises ==
    Called =>
        /\ Returned
        /\ Len(result.value) = 3
        /\ result.value[2] \in {"C", "P", None}

\* C8: whenever the pattern matches, the strike returned is the integer value
\* of the whole trailing digit run divided by 1000 (leading zeros ignored),
\* never negative, and exact for 00195000, 00000500 and 00010000.
C8_StrikeIsRunOver1000 ==
    LET match == re_search(args.ticker)
    IN  (Called /\ match.found) =>
            /\ Returned
            /\ result.value[3] = TrueDiv1000(IntDigits(match.group3))
            /\ match.group3 = <<"0", "0", "1", "9", "5", "0", "0", "0">>
                   => result.value[3] = "195.000"
            /\ match.group3 = <<"0", "0", "0", "0", "0", "5", "0", "0">>
                   => result.value[3] = "0.500"
            /\ match.group3 = <<"0", "0", "0", "1", "0", "0", "0", "0">>
                   => result.value[3] = "10.000"

\* The positions of s at which the pattern matches.
CodeStarts(s) ==
    {i \in 1..(Len(s) - 7) :
        \A k \in i..(i + 7) : IF k = i + 6 THEN s[k] \in {"C", "P"}
                              ELSE s[k] \in Digit}

\* C9: when the pattern matches at more than one position, all three fields
\* come from the leftmost match; its strike run is every consecutive digit
\* after the letter and its date the six digits right before the letter.
C9_LeftmostMatchWins ==
    LET starts == CodeStarts(args.ticker)
    IN  (Called /\ Cardinality(starts) > 1) =>
            LET i    == MinOf(starts)
                last == CHOOSE j \in (i + 7)..Len(args.ticker) :
                            /\ \A k \in (i + 7)..j : args.ticker[k] \in Digit
                            /\ j = Len(args.ticker) \/ args.ticker[j + 1] \notin Digit
            IN  /\ Returned
                /\ result.value[1] = ExpirationOf(SubSeq(args.ticker, i, i + 5))
                /\ result.value[2] = args.ticker[i + 6]
                /\ result.value[3] =
                       TrueDiv1000(IntDigits(SubSeq(args.ticker, i + 7, last)))

-----------------------------------------------------------------------------
(* Properties of process_etf_data (Spec) *)

\* The enrichment pass has run: the rows are decoded, or decoded and labelled.
Decoded == pc \in {"parsed", "classified"} \/ (pc = "exit" /\ status = 0)

Classified == pc = "classified" \/ (pc = "exit" /\ status = 0)

\* The line of the downloaded file a row of df comes from.
FileLine(row) == csv.rows[row["Line"]]

DecodedFields(row) == <<row["Expiration"], row["Put/Call"], row["Strike"]>>

SpacedTicker ==
    <<"A", "A", "P", "L", " ", "2", "4", "0", "6", "2", "1", " ", "P", " ",
      "0", "0", "1", "5", "0", "0", "0", "0">>

\* C4 as stated: parse_option_ticker itself tolerates embedded spaces; the
\* decode of a string with interior spaces equals the decode of the string
\* with its spaces removed, in a direct call and for the tickers of the file
\* alike, without the caller stripping first.
C4_DecoderStripsSpaces ==
    /\ (args.fn = "parse_option_ticker" /\ Called) =>
           result = parse_option_ticker(WithoutSpaces(args.ticker))
    /\ Decoded =>
           \A k \in 1..Len(df.rows) :
               parse_option_ticker(FileLine(df.rows[k])["Ticker"]) =
                   Return(DecodedFields(df.rows[k]))

\* C4 as amended: tolerance of embedded spaces lies with the caller, not with
\* parse_option_ticker: process_etf_data removes every space from Ticker
\* before decoding, so the fields of every decoded row are the decode of its
\* file ticker with all spaces removed ('AAPL 240621 P 00150000' gives
\* 2024-06-21, P, 150.0), while parse_option_ticker applied to that spaced
\* string itself returns the all-absent result.
C4_CallerStripsSpaces ==
    Decoded =>
        \A k \in 1..Len(df.rows) :
            LET raw == FileLine(df.rows[k])["Ticker"]
            IN  /\ Return(DecodedFields(df.rows[k])) =
                       parse_option_ticker(WithoutSpaces(raw))
                /\ raw = SpacedTicker =>
                       /\ DecodedFields(df.rows[k]) = <<"2024-06-21", "P", "150.000">>
                       /\ parse_option_ticker(raw) = Return(AllAbsent)

\* A row whose file ticker holds spaces has been decoded as an option.
C4_Witness ==
    /\ pc = "parsed"
    /\ \E k \in 1..Len(df.rows) :
           /\ FileLine(df.rows[k])["Ticker"] = SpacedTicker
           /\ DecodedFields(df.rows[k]) = <<"2024-06-21", "P", "150.000">>

Labels == {"Stock", "CC", "CSP", "Long C", "Long P"}

\* The three-case rule of the classifier.
RuleLabel(quantity, option_type) ==
    CASE option_type = None -> "Stock"
      [] option_type = "C" /\ quantity < 0 -> "CC"
      [] option_type = "P" /\ quantity < 0 -> "CSP"
      [] option_type = "C" /\ quantity >= 0 -> "Long C"
      [] option_type = "P" /\ quantity >= 0 -> "Long P"

\* C10: after the enrichment pass the rows are exactly the lines that passed
\* the description filter, and every one carries exactly one Classification,
\* from {Stock, CC, CSP, Long C, Long P}: the label of the three-case rule for
\* the row's own Quantity and the Put/Call decoded from the row's own
\* space-stripped Ticker. The decode comes before the classification.
C10_EveryRowClassifiedFromItsOwnFields ==
    /\ pc = "parsed" =>
           \A k \in 1..Len(df.rows) :
               /\ "Put/Call" \in DOMAIN df.rows[k]
               /\ "Classification" \notin DOMAIN df.rows[k]
    /\ Classified =>
           /\ {df.rows[k]["Line"] : k \in 1..Len(df.rows)} =
                  {n \in 1..Len(csv.rows) : mask(csv.rows[n])}
           /\ Cardinality({c \in 1..Len(df.columns) :
                               df.columns[c] = "Classification"}) = 1
           /\ \A k \in 1..Len(df.rows) :
                  LET row  == df.rows[k]
                      line == FileLine(row)
                  IN  /\ "Classification" \in DOMAIN row
                      /\ row["Classification"] \in Labels
                      /\ row["Quantity"] = to_numeric_fillna0(line["Quantity"])
                      /\ row["Ticker"] = WithoutSpaces(line["Ticker"])
                      /\ parse_option_ticker(row["Ticker"]) = Return(DecodedFields(row))
                      /\ row["Classification"] =
                             RuleLabel(row["Quantity"], row["Put/Call"])

\* Two rows of one table have been given different labels.
C10_Witness ==
    /\ pc = "classified"
    /\ Len(df.rows) = 2
    /\ df.rows[1]["Classification"] = "CSP"
    /\ df.rows[2]["Classification"] = "Stock"

\* C11: a row whose Quantity cell is missing or not numeric is given the
\* quantity 0 before classification, so it is never labelled CC or CSP: its
\* label is Long C or Long P when its ticker decodes to an option, and Stock
\* otherwise.
C11_MissingQuantityIsNeverShort ==
    /\ pc \in {"validated", "cleaned", "filtered", "parsed"} =>
           \A k \in 1..Len(df.rows) :
               ~FileLine(df.rows[k])["Quantity"].numeric => df.rows[k]["Quantity"] = 0
    /\ Classified =>
           \A k \in 1..Len(df.rows) :
               LET row == df.rows[k]
               IN  ~FileLine(row)["Quantity"].numeric =>
                       /\ row["Quantity"] = 0
                       /\ row["Classification"] \notin {"CC", "CSP"}
                       /\ HasOptionCode(WithoutSpaces(FileLine(row)["Ticker"]))
                              => row["Classification"] \in {"Long C", "Long P"}
                       /\ ~HasOptionCode(WithoutSpaces(FileLine(row)["Ticker"]))
                              => row["Classification"] = "Stock"

\* An option row and a stock row without a numeric quantity have been
\* labelled.
C11_Witness ==
    /\ pc = "classified"
    /\ Len(df.rows) = 2
    /\ \A k \in 1..2 : ~FileLine(df.rows[k])["Quantity"].numeric
    /\ df.rows[1]["Classification"] = "Long P"
    /\ df.rows[2]["Classification"] = "Stock"

ArchiveWritten == dated_filename \in DOMAIN files

OutputWritten == OUTPUT_FILENAME \in DOMAIN files

HasRequiredColumns ==
    \A c \in Range(RequiredColumns) : c \in Range(csv.columns)

\* The position of a step in the order download, archive, validate, enrich
\* (clean, filter, parse, classify), write.
StepRank(p) ==
    CASE p = "start" -> 0 [] p = "downloaded" -> 1 [] p = "archived" -> 2
      [] p = "validated" -> 3 [] p = "cleaned" -> 4 [] p = "filtered" -> 5
      [] p = "parsed" -> 6 [] p = "classified" -> 7 [] p = "exit" -> 8

\* C12: in every run the steps come in the order download, dated archive
\* copy, column check, enrichment, enriched output. The enriched output is
\* written only after a successful download and only for a table with the
\* Ticker, Quantity and Description columns; a failed download ends the run
\* with status 1 and neither file written; a missing column ends it with
\* status 1, the dated archive written and the enriched output not written.
C12_StepsInOrder ==
    /\ [](OutputWritten =>
              ArchiveWritten /\ HasRequiredColumns /\ pc = "exit" /\ status = 0)
    /\ []((pc = "exit" /\ ~HasRequiredColumns) => (status = 1 /\ ~OutputWritten))
    /\ [](StepRank(pc) \in 2..7 => ArchiveWritten)
    /\ [][/\ pc' = "exit" \/ StepRank(pc') = StepRank(pc) + 1
          /\ (~ArchiveWritten /\ ArchiveWritten') => pc = "downloaded"
          /\ (~OutputWritten /\ OutputWritten') => pc = "classified"
          /\ (pc = "start" /\ pc' = "exit") =>
                 (status' = 1 /\ DOMAIN files' = {})
          /\ (pc = "archived" /\ pc' # "exit") => HasRequiredColumns
          /\ (pc = "archived" /\ ~HasRequiredColumns) =>
                 /\ pc' = "exit"
                 /\ status' = 1
                 /\ ArchiveWritten'
                 /\ ~OutputWritten'
          /\ (ArchiveWritten => ArchiveWritten')
         ]_vars

\* A run has ended on a missing column, with the archive copy on disk only.
C12_Witness ==
    /\ pc = "exit"
    /\ status = 1
    /\ ~HasRequiredColumns
    /\ DOMAIN files = {dated_filename}

=============================================================================
